---- MODULE Spec2Model ----
(***************************************************************************)
(* Complaint-tracking web application (src/app.py, src/models.py).         *)
(*                                                                         *)
(* State: the three tables of the relational store (users, complaints,     *)
(* responses), the browser session of the client, the latest reading of    *)
(* the wall clock (datetime.utcnow()), and the HTTP response of the request *)
(* handled last.                                                           *)
(* One action per POST/GET handler; a handler runs to completion, commit   *)
(* or rollback included.  One more action starts the process again on the  *)
(* store it left.                                                          *)
(***************************************************************************)
EXTENDS Integers, Sequences, FiniteSets, TLC

VARIABLES users, complaints, responses, session, now, resp

vars == <<users, complaints, responses, session, now, resp>>

-----------------------------------------------------------------------------
(* Bounds of the model.                                                    *)

MaxUsers == 5
MaxComplaints == 2
MaxResponses == 2
MaxTime == 2
MaxEscalations == 1
TicksPerDay == 2

-----------------------------------------------------------------------------
(* Enumerations of src/models.py.  A member is written as its value; the   *)
(* handlers look members up by NAME (ComplaintStatus[...]), so the lookup  *)
(* tables below map names to members and every other string is a KeyError. *)

CITIZEN == "citizen"
ADMIN == "admin"
STAFF == "staff"
UserRole == {CITIZEN, ADMIN, STAFF}

PENDING == "pending"
ACKNOWLEDGED == "acknowledged"
IN_PROGRESS == "in_progress"
ESCALATED == "escalated"
RESOLVED == "resolved"
CLOSED == "closed"
ComplaintStatus == {PENDING, ACKNOWLEDGED, IN_PROGRESS, ESCALATED, RESOLVED, CLOSED}

LOW == "low"
MEDIUM == "medium"
HIGH == "high"
CRITICAL == "critical"
ComplaintPriority == {LOW, MEDIUM, HIGH, CRITICAL}

\* None: no value, for strings.  NULL: no value, for row ids and timestamps
\* (row ids and clock readings start at 1).  Absent: the key is not in
\* request.form.  KeyError: the lookup of an enum member by name failed.
None == "None"
NULL == 0
Absent == "<absent>"
KeyError == "<KeyError>"

StatusNames == {"PENDING", "ACKNOWLEDGED", "IN_PROGRESS", "ESCALATED", "RESOLVED", "CLOSED"}
PriorityNames == {"LOW", "MEDIUM", "HIGH", "CRITICAL"}

\* ComplaintStatus[name]
StatusByName(name) ==
    CASE name = "PENDING" -> PENDING
      [] name = "ACKNOWLEDGED" -> ACKNOWLEDGED
      [] name = "IN_PROGRESS" -> IN_PROGRESS
      [] name = "ESCALATED" -> ESCALATED
      [] name = "RESOLVED" -> RESOLVED
      [] name = "CLOSED" -> CLOSED
      [] OTHER -> KeyError

\* ComplaintPriority[name]
PriorityByName(name) ==
    CASE name = "LOW" -> LOW
      [] name = "MEDIUM" -> MEDIUM
      [] name = "HIGH" -> HIGH
      [] name = "CRITICAL" -> CRITICAL
      [] OTHER -> KeyError

\* int(text): the decimal numerals parse, every other text is a ValueError
IsNumeral(text) == text \in {"1", "2", "3"}

ParseInt(text) ==
    CASE text = "1" -> 1
      [] text = "2" -> 2
      [] text = "3" -> 3

-----------------------------------------------------------------------------
(* Credentials: werkzeug's salted one-way hash, kept opaque.  The stored   *)
(* value is the salt and the digest of (salt, password); verification      *)
(* recomputes the digest from the stored salt.                             *)

Salts == {"s1"}

Digest(salt, password) == <<"pbkdf2", salt, password>>

generate_password_hash(salt, password) == [salt |-> salt, digest |-> Digest(salt, password)]

check_password_hash(pwhash, password) == pwhash.digest = Digest(pwhash.salt, password)

\* User.check_password
check_password(user, password) == check_password_hash(user.password_hash, password)

-----------------------------------------------------------------------------
(* The store.  A table is the sequence of its rows in insertion order; the *)
(* autoincrement primary key of a row is its position, since no handler    *)
(* deletes a row.                                                          *)

NewUser(id, email, username, password_hash, role) ==
    [id |-> id, email |-> email, username |-> username,
     password_hash |-> password_hash, role |-> role, is_active |-> 1]

\* session.query(User).filter_by(username=username).first(): the id of the
\* first row with that username, NULL when there is none
UserByUsername(us, username) ==
    IF \E i \in DOMAIN us : us[i].username = username
    THEN CHOOSE i \in DOMAIN us : /\ us[i].username = username
                                  /\ \A j \in DOMAIN us : us[j].username = username => i <= j
    ELSE NULL

\* the UNIQUE constraints of users.email and users.username, checked at commit
UsersUnique(us) ==
    \A i, j \in DOMAIN us :
        i # j => us[i].email # us[j].email /\ us[i].username # us[j].username

ADMIN_EMAIL == "admin@localgov.com"
ADMIN_USERNAME == "admin"
ADMIN_PASSWORD == "admin123"

create_admin_userUnguarded(us, salt) ==
    Append(us, NewUser(Len(us) + 1, ADMIN_EMAIL, ADMIN_USERNAME,
                       generate_password_hash(salt, ADMIN_PASSWORD), ADMIN))

\* create_admin_user: the store after the bootstrap, run at process start.
\* The existence check is by username alone.  In a store the application
\* wrote, the insert cannot fail on UNIQUE(email): the bootstrap runs before
\* the first request, and register refuses the email of a stored user.
create_admin_user(us, salt) ==
    IF UserByUsername(us, ADMIN_USERNAME) # NULL
    THEN us
    ELSE Append(us, NewUser(Len(us) + 1, ADMIN_EMAIL, ADMIN_USERNAME,
                            generate_password_hash(salt, ADMIN_PASSWORD), ADMIN))

-----------------------------------------------------------------------------
(* Requests.  The form values a client may send.                           *)

Emails == {"alice@x.org", "bob@x.org", ADMIN_EMAIL}
Usernames == {"alice", "bob", ADMIN_USERNAME}
Passwords == {ADMIN_PASSWORD, "letmein"}

\* the session after session.clear(), and of a client that never logged in
NoSession == [user_id |-> NULL, username |-> None, role |-> None]

\* 'user_id' in session
LoggedIn == session.user_id # NULL

Reply(route, flash, data) == [route |-> route, flash |-> flash, data |-> data]

NoReply == Reply(None, None, <<>>)

ExistingUserByEmailOnly(email, username) ==
    \E i \in DOMAIN users : users[i].email = email

\* register's query for a row with that email or that username
ExistingUser(email, username) ==
    \E i \in DOMAIN users : users[i].email = email \/ users[i].username = username

registerWithStaffRole(email, username, password, salt) ==
    /\ IF Absent \in {email, username, password}
       THEN /\ resp' = Reply("register", "Registration failed", <<>>)
            /\ UNCHANGED users
       ELSE IF ExistingUser(email, username)
       THEN /\ resp' = Reply("register", "Email or username already exists!", <<>>)
            /\ UNCHANGED users
       ELSE LET added == Append(users, NewUser(Len(users) + 1, email, username,
                                               generate_password_hash(salt, password), STAFF))
            IN  IF UsersUnique(added)
                THEN /\ Len(users) < MaxUsers
                     /\ users' = added
                     /\ resp' = Reply("register", "Registration successful! Please log in.", <<>>)
                ELSE /\ resp' = Reply("register", "Registration failed", <<>>)
                     /\ UNCHANGED users
    /\ UNCHANGED <<complaints, responses, session, now>>

\* POST /register
register(email, username, password, salt) ==
    /\ IF Absent \in {email, username, password}
       THEN \* request.form[...] raises inside the try: rollback
            /\ resp' = Reply("register", "Registration failed", <<>>)
            /\ UNCHANGED users
       ELSE IF ExistingUser(email, username)
       THEN /\ resp' = Reply("register", "Email or username already exists!", <<>>)
            /\ UNCHANGED users
       ELSE LET added == Append(users, NewUser(Len(users) + 1, email, username,
                                               generate_password_hash(salt, password), CITIZEN))
            IN  IF UsersUnique(added)
                THEN /\ Len(users) < MaxUsers
                     /\ users' = added
                     /\ resp' = Reply("register", "Registration successful! Please log in.", <<>>)
                ELSE \* IntegrityError at commit: rollback
                     /\ resp' = Reply("register", "Registration failed", <<>>)
                     /\ UNCHANGED users
    /\ UNCHANGED <<complaints, responses, session, now>>

LoginAcceptedIgnoringActive(uid, password) ==
    /\ uid # NULL
    /\ check_password(users[uid], password)

\* the condition of login's if: user and user.check_password(password) and
\* user.is_active
LoginAccepted(uid, password) ==
    /\ uid # NULL
    /\ check_password(users[uid], password)
    /\ users[uid].is_active # 0

\* POST /login
login(username, password) ==
    /\ IF Absent \in {username, password}
       THEN \* request.form[...] raises outside any try: 400 Bad Request
            /\ resp' = Reply("login", "400 Bad Request", <<>>)
            /\ UNCHANGED session
       ELSE LET uid == UserByUsername(users, username)
            IN  IF LoginAccepted(uid, password)
                THEN /\ session' = [user_id |-> users[uid].id,
                                    username |-> users[uid].username,
                                    role |-> users[uid].role]
                     /\ resp' = Reply("login", "Welcome back", <<>>)
                ELSE /\ resp' = Reply("login", "Invalid credentials or inactive account!", <<>>)
                     /\ UNCHANGED session
    /\ UNCHANGED <<users, complaints, responses, now>>

\* GET /logout
logout ==
    /\ session' = NoSession
    /\ resp' = Reply("logout", "You have been logged out.", <<>>)
    /\ UNCHANGED <<users, complaints, responses, now>>

-----------------------------------------------------------------------------
(* The clock.  `now` is the latest reading of datetime.utcnow(); a reading *)
(* gives the reading before it again or the next tick.  A request that     *)
(* ends before it reads the clock takes no reading: there t is `now` and   *)
(* `now` stays.                                                            *)

\* the readings that may follow the reading t
After(t) == {u \in {t, t + 1} : u <= MaxTime}

\* the readings that may follow the latest one
Clock == After(now)

-----------------------------------------------------------------------------
(* Access checks.                                                          *)

StaffRoles == {ADMIN, STAFF}

\* login_required: "ok", or the redirect to the login page
login_required ==
    IF ~LoggedIn THEN "login" ELSE "ok"

admin_requiredNoRoleCheck ==
    IF ~LoggedIn THEN "login" ELSE "ok"

\* admin_required: "ok", the redirect to the login page, or the denial.  The
\* role is read from the users table, not from the session.
admin_required ==
    IF ~LoggedIn THEN "login"
    ELSE IF session.user_id \notin DOMAIN users
            \/ users[session.user_id].role \notin StaffRoles
         THEN "denied"
         ELSE "ok"

PleaseLogIn(route) == Reply(route, "Please log in to access this page.", <<>>)

\* admin_required redirects a client without a session without a flash
ToLogin(route) == Reply(route, "redirect: login", <<>>)

AdminDenied(route) == Reply(route, "Access denied. Admin privileges required.", <<>>)

-----------------------------------------------------------------------------
(* Complaints.                                                             *)

Categories == {"Water Supply", "Sanitation"}
Tokens == {"A1B2C3", "00FF7E"}

\* datetime.utcnow().strftime('%Y%m%d')
Date(t) == t \div TicksPerDay

\* f"COMP-{date}-{secrets.token_hex(3).upper()}"
TicketNumber(t, token) == <<"COMP", Date(t), token>>

\* the UNIQUE constraint of complaints.ticket_number, checked at commit
TicketsUnique(cs) ==
    \A i, j \in DOMAIN cs : i # j => cs[i].ticket_number # cs[j].ticket_number

NewComplaintDefaultPriority(id, ticket_number, user_id, category, priority, t) ==
    [id |-> id, ticket_number |-> ticket_number, user_id |-> user_id,
     category |-> category, status |-> PENDING, priority |-> MEDIUM,
     assigned_to |-> NULL, updated_at |-> t, resolved_at |-> NULL,
     escalation_count |-> 0]

\* Complaint(...) with the column defaults of src/models.py
NewComplaint(id, ticket_number, user_id, category, priority, t) ==
    [id |-> id, ticket_number |-> ticket_number, user_id |-> user_id,
     category |-> category, status |-> PENDING, priority |-> priority,
     assigned_to |-> NULL, updated_at |-> t, resolved_at |-> NULL,
     escalation_count |-> 0]

\* POST /complaint/new
new_complaint(category, priority, token, t) ==
    /\ IF login_required # "ok"
       THEN /\ resp' = PleaseLogIn("new_complaint")
            /\ t = now /\ UNCHANGED <<complaints, now>>
       ELSE LET ticket_number == TicketNumber(t, token)
                member == PriorityByName(IF priority = Absent THEN "MEDIUM" ELSE priority)
                added == Append(complaints,
                                NewComplaint(Len(complaints) + 1, ticket_number,
                                             session.user_id, category, member, t))
            IN  IF category = Absent \/ member = KeyError \/ ~TicketsUnique(added)
                THEN \* request.form[...] or the enum lookup raises, or the commit
                     \* raises IntegrityError: rollback
                     /\ resp' = Reply("new_complaint", "Failed to submit complaint", <<>>)
                     /\ now' = t
                     /\ UNCHANGED complaints
                ELSE /\ Len(complaints) < MaxComplaints
                     /\ complaints' = added
                     /\ now' = t
                     /\ resp' = Reply("new_complaint", "Complaint submitted successfully!",
                                      <<ticket_number>>)
    /\ UNCHANGED <<users, responses, session>>

UpdateFieldsClearingResolvedAt(c, status, priority, assigned_to, t1, t) ==
    LET new_status == StatusByName(status)
        c1 == IF status = Absent THEN c
              ELSE [c EXCEPT !.status = new_status,
                             !.resolved_at = IF new_status = RESOLVED THEN t1 ELSE NULL]
        c2 == IF priority = Absent THEN c1
              ELSE [c1 EXCEPT !.priority = PriorityByName(priority)]
        c3 == IF assigned_to = Absent \/ assigned_to = "" THEN c2
              ELSE [c2 EXCEPT !.assigned_to = ParseInt(assigned_to)]
    IN  IF \/ status # Absent /\ new_status = KeyError
           \/ priority # Absent /\ PriorityByName(priority) = KeyError
           \/ assigned_to # Absent /\ assigned_to # "" /\ ~IsNumeral(assigned_to)
        THEN [raised |-> TRUE, row |-> c]
        ELSE [raised |-> FALSE, row |-> [c3 EXCEPT !.updated_at = t]]

UpdateFieldsResettingAssignee(c, status, priority, assigned_to, t1, t) ==
    LET new_status == StatusByName(status)
        c1 == IF status = Absent THEN c
              ELSE IF new_status = RESOLVED
                   THEN [c EXCEPT !.status = new_status, !.resolved_at = t1]
                   ELSE [c EXCEPT !.status = new_status]
        c2 == IF priority = Absent THEN c1
              ELSE [c1 EXCEPT !.priority = PriorityByName(priority)]
        c3 == IF assigned_to = Absent \/ assigned_to = "" THEN [c2 EXCEPT !.assigned_to = NULL]
              ELSE [c2 EXCEPT !.assigned_to = ParseInt(assigned_to)]
    IN  IF \/ status # Absent /\ new_status = KeyError
           \/ priority # Absent /\ PriorityByName(priority) = KeyError
           \/ assigned_to # Absent /\ assigned_to # "" /\ ~IsNumeral(assigned_to)
        THEN [raised |-> TRUE, row |-> c]
        ELSE [raised |-> FALSE, row |-> [c3 EXCEPT !.updated_at = t]]

UpdateFieldsClosedIsFinal(c, status, priority, assigned_to, t1, t) ==
    LET new_status == StatusByName(status)
        c1 == IF status = Absent THEN c
              ELSE IF new_status = RESOLVED
                   THEN [c EXCEPT !.status = new_status, !.resolved_at = t1]
                   ELSE [c EXCEPT !.status = new_status]
        c2 == IF priority = Absent THEN c1
              ELSE [c1 EXCEPT !.priority = PriorityByName(priority)]
        c3 == IF assigned_to = Absent \/ assigned_to = "" THEN c2
              ELSE [c2 EXCEPT !.assigned_to = ParseInt(assigned_to)]
    IN  IF \/ status # Absent /\ new_status = KeyError
           \/ status # Absent /\ c.status = CLOSED /\ new_status # CLOSED
           \/ priority # Absent /\ PriorityByName(priority) = KeyError
           \/ assigned_to # Absent /\ assigned_to # "" /\ ~IsNumeral(assigned_to)
        THEN [raised |-> TRUE, row |-> c]
        ELSE [raised |-> FALSE, row |-> [c3 EXCEPT !.updated_at = t]]

UpdateFieldsCountingEscalated(c, status, priority, assigned_to, t1, t) ==
    LET new_status == StatusByName(status)
        c1 == IF status = Absent THEN c
              ELSE IF new_status = RESOLVED
                   THEN [c EXCEPT !.status = new_status, !.resolved_at = t1]
                   ELSE IF new_status = ESCALATED
                   THEN [c EXCEPT !.status = new_status,
                                  !.escalation_count = c.escalation_count + 1]
                   ELSE [c EXCEPT !.status = new_status]
        c2 == IF priority = Absent THEN c1
              ELSE [c1 EXCEPT !.priority = PriorityByName(priority)]
        c3 == IF assigned_to = Absent \/ assigned_to = "" THEN c2
              ELSE [c2 EXCEPT !.assigned_to = ParseInt(assigned_to)]
    IN  IF \/ status # Absent /\ new_status = KeyError
           \/ priority # Absent /\ PriorityByName(priority) = KeyError
           \/ assigned_to # Absent /\ assigned_to # "" /\ ~IsNumeral(assigned_to)
        THEN [raised |-> TRUE, row |-> c]
        ELSE [raised |-> FALSE, row |-> [c3 EXCEPT !.updated_at = t]]

UpdateFieldsWithoutRollback(c, status, priority, assigned_to, t1, t) ==
    LET new_status == StatusByName(status)
        c1 == IF status = Absent THEN c
              ELSE IF new_status = RESOLVED
                   THEN [c EXCEPT !.status = new_status, !.resolved_at = t1]
                   ELSE [c EXCEPT !.status = new_status]
        c2 == IF priority = Absent THEN c1
              ELSE [c1 EXCEPT !.priority = PriorityByName(priority)]
        c3 == IF assigned_to = Absent \/ assigned_to = "" THEN c2
              ELSE [c2 EXCEPT !.assigned_to = ParseInt(assigned_to)]
    IN  IF status # Absent /\ new_status = KeyError
        THEN [raised |-> TRUE, row |-> c]
        ELSE IF priority # Absent /\ PriorityByName(priority) = KeyError
        THEN [raised |-> TRUE, row |-> c1]
        ELSE IF assigned_to # Absent /\ assigned_to # "" /\ ~IsNumeral(assigned_to)
        THEN [raised |-> TRUE, row |-> c2]
        ELSE [raised |-> FALSE, row |-> [c3 EXCEPT !.updated_at = t]]

\* the assignments of update_complaint's try block, in order; "raised" when one
\* of them raises, and the row is then the stored one: db_session.rollback()
\* discards the assignments made before the raise.  t1 is the clock reading
\* for resolved_at, t the later one for updated_at.
UpdateFields(c, status, priority, assigned_to, t1, t) ==
    LET new_status == StatusByName(status)
        c1 == IF status = Absent THEN c
              ELSE IF new_status = RESOLVED
                   THEN [c EXCEPT !.status = new_status, !.resolved_at = t1]
                   ELSE [c EXCEPT !.status = new_status]
        c2 == IF priority = Absent THEN c1
              ELSE [c1 EXCEPT !.priority = PriorityByName(priority)]
        c3 == IF assigned_to = Absent \/ assigned_to = "" THEN c2
              ELSE [c2 EXCEPT !.assigned_to = ParseInt(assigned_to)]
    IN  IF \/ status # Absent /\ new_status = KeyError
           \/ priority # Absent /\ PriorityByName(priority) = KeyError
           \/ assigned_to # Absent /\ assigned_to # "" /\ ~IsNumeral(assigned_to)
        THEN [raised |-> TRUE, row |-> c]
        ELSE [raised |-> FALSE, row |-> [c3 EXCEPT !.updated_at = t]]

\* POST /complaint/<id>/update
\* the request reads the clock at t1 when the status it sets is RESOLVED, and
\* at t when it has made its assignments
update_complaint(cid, status, priority, assigned_to, t1, t) ==
    /\ IF admin_required = "login"
       THEN /\ resp' = ToLogin("update_complaint")
            /\ t1 = now /\ t = now /\ UNCHANGED <<complaints, now>>
       ELSE IF admin_required = "denied"
       THEN /\ resp' = AdminDenied("update_complaint")
            /\ t1 = now /\ t = now /\ UNCHANGED <<complaints, now>>
       ELSE IF cid \notin DOMAIN complaints
       THEN /\ resp' = Reply("update_complaint", "404 Complaint not found", <<>>)
            /\ t1 = now /\ t = now /\ UNCHANGED <<complaints, now>>
       ELSE LET done == UpdateFields(complaints[cid], status, priority, assigned_to, t1, t)
            IN  /\ StatusByName(status) # RESOLVED => t1 = now
                /\ IF done.raised
                   THEN \* db_session.rollback(); the clock was read if the
                        \* status was set to RESOLVED before the raise
                        /\ resp' = Reply("update_complaint", "Update failed", <<>>)
                        /\ t = t1
                        /\ now' = t1
                        /\ complaints' = [complaints EXCEPT ![cid] = done.row]
                   ELSE /\ complaints' = [complaints EXCEPT ![cid] = done.row]
                        /\ now' = t
                        /\ resp' = Reply("update_complaint", "Complaint updated successfully!", <<>>)
    /\ UNCHANGED <<users, responses, session>>

EscalatedKeepingCritical(c, t) ==
    [c EXCEPT !.status = ESCALATED,
              !.escalation_count = c.escalation_count + 1,
              !.priority = IF c.priority = CRITICAL THEN CRITICAL ELSE HIGH,
              !.updated_at = t]

EscalatedClearingResolvedAt(c, t) ==
    [c EXCEPT !.status = ESCALATED,
              !.escalation_count = c.escalation_count + 1,
              !.priority = HIGH,
              !.resolved_at = NULL,
              !.updated_at = t]

\* the assignments of escalate_complaint
Escalated(c, t) ==
    [c EXCEPT !.status = ESCALATED,
              !.escalation_count = c.escalation_count + 1,
              !.priority = HIGH,
              !.updated_at = t]

\* POST /complaint/<id>/escalate
escalate_complaint(cid, t) ==
    /\ IF admin_required = "login"
       THEN /\ resp' = ToLogin("escalate_complaint")
            /\ t = now /\ UNCHANGED <<complaints, now>>
       ELSE IF admin_required = "denied"
       THEN /\ resp' = AdminDenied("escalate_complaint")
            /\ t = now /\ UNCHANGED <<complaints, now>>
       ELSE IF cid \notin DOMAIN complaints
       THEN \* no flash: the redirect to the complaint's page alone
            /\ resp' = Reply("escalate_complaint", "redirect: view_complaint", <<>>)
            /\ t = now /\ UNCHANGED <<complaints, now>>
       ELSE /\ complaints[cid].escalation_count < MaxEscalations
            /\ complaints' = [complaints EXCEPT ![cid] = Escalated(complaints[cid], t)]
            /\ now' = t
            /\ resp' = Reply("escalate_complaint", "Complaint escalated successfully!", <<>>)
    /\ UNCHANGED <<users, responses, session>>

-----------------------------------------------------------------------------
(* Responses.                                                              *)

Messages == {"noted"}
InternalFlags == {"on", "off"}

\* Response(...): created_at is the column default, datetime.utcnow
NewResponse(id, complaint_id, responder_id, is_internal, t) ==
    [id |-> id, complaint_id |-> complaint_id, responder_id |-> responder_id,
     is_internal |-> is_internal, created_at |-> t]

IsInternalAsRequested(role, internal) ==
    IF internal = "on" THEN 1 ELSE 0

\* is_internal as respond_to_complaint computes it from the author's role and
\* request.form.get('internal')
IsInternal(role, internal) ==
    IF role \in StaffRoles
    THEN (IF internal = "on" THEN 1 ELSE 0)
    ELSE 0

\* POST /complaint/<id>/respond
respond_to_complaint(cid, message, internal, t) ==
    /\ IF login_required # "ok"
       THEN /\ resp' = PleaseLogIn("respond_to_complaint")
            /\ t = now /\ UNCHANGED <<responses, now>>
       ELSE IF cid \notin DOMAIN complaints
       THEN /\ resp' = Reply("respond_to_complaint", "Complaint not found!", <<>>)
            /\ t = now /\ UNCHANGED <<responses, now>>
       ELSE IF message = Absent
       THEN \* request.form['message'] raises inside the try: rollback
            /\ resp' = Reply("respond_to_complaint", "Failed to add response", <<>>)
            /\ t = now /\ UNCHANGED <<responses, now>>
       ELSE /\ Len(responses) < MaxResponses
            /\ responses' = Append(responses,
                                   NewResponse(Len(responses) + 1, cid, session.user_id,
                                               IsInternal(users[session.user_id].role, internal),
                                               t))
            /\ now' = t
            /\ resp' = Reply("respond_to_complaint", "Response added successfully!", <<>>)
    /\ UNCHANGED <<users, complaints, session>>

ViewDeniedNever(role, owner_id, user_id) == FALSE

\* the access check of view_complaint
ViewDenied(role, owner_id, user_id) ==
    role = CITIZEN /\ owner_id # user_id

ListedAll(role, complaint_id) ==
    {i \in DOMAIN responses : responses[i].complaint_id = complaint_id}

\* the rows of view_complaint's query: filter_by(complaint_id), and for a
\* citizen filter_by(is_internal=0)
Listed(role, complaint_id) ==
    {i \in DOMAIN responses :
        /\ responses[i].complaint_id = complaint_id
        /\ role = CITIZEN => responses[i].is_internal = 0}

\* order_by(Response.created_at.asc()): every order of the rows in which
\* created_at never decreases (SQL leaves the order of equal keys open)
OrderByCreatedAt(rows) ==
    {q \in [1..Cardinality(rows) -> rows] :
        /\ \A i, j \in DOMAIN q : i # j => q[i] # q[j]
        /\ \A i, j \in DOMAIN q : i < j => responses[q[i]].created_at <= responses[q[j]].created_at}

\* GET /complaint/<id>
view_complaint(cid) ==
    /\ IF login_required # "ok"
       THEN resp' = PleaseLogIn("view_complaint")
       ELSE IF cid \notin DOMAIN complaints
       THEN resp' = Reply("view_complaint", "Complaint not found!", <<>>)
       ELSE LET user == users[session.user_id]
            IN  IF ViewDenied(user.role, complaints[cid].user_id, user.id)
                THEN resp' = Reply("view_complaint", "Access denied!", <<>>)
                ELSE \E q \in OrderByCreatedAt(Listed(user.role, cid)) :
                        resp' = Reply("view_complaint", "200 OK", q)
    /\ UNCHANGED <<users, complaints, responses, session, now>>

-----------------------------------------------------------------------------
(* Reports.                                                                *)

\* db_session.query(Complaint).filter_by(status=status).count()
CountWithStatus(cs, status) == Cardinality({i \in DOMAIN cs : cs[i].status = status})

\* db_session.query(Complaint.category,).group_by(Complaint.category).all():
\* one row per category that a complaint has, and the category is the row's
\* only column.  SQL leaves the order of the groups open.
GroupByCategory(cs) ==
    LET observed == {cs[i].category : i \in DOMAIN cs}
    IN  {q \in [1..Cardinality(observed) -> {<<category>> : category \in observed}] :
            \A i, j \in DOMAIN q : i # j => q[i] # q[j]}

\* GET /admin/reports: the values handed to the template
reports ==
    /\ IF admin_required = "login"
       THEN resp' = ToLogin("reports")
       ELSE IF admin_required = "denied"
       THEN resp' = AdminDenied("reports")
       ELSE \E category_counts \in GroupByCategory(complaints) :
               resp' = Reply("reports", "200 OK",
                             [total |-> Len(complaints),
                              status_counts |-> [status \in ComplaintStatus |->
                                                    CountWithStatus(complaints, status)],
                              category_counts |-> category_counts])
    /\ UNCHANGED <<users, complaints, responses, session, now>>

-----------------------------------------------------------------------------
(* Requests a client may send.                                             *)

LoginNames == Usernames \cup {"carol", "dave", Absent}
FormStatuses == StatusNames \cup {Absent, "resolved"}
FormPriorities == {Absent, "CRITICAL", "urgent"}
FormAssignees == {Absent, "", "2", "x"}

\* the ids a client may put in a URL: those of the stored complaints, and
\* one that no complaint has.  What a handler does with an id that no
\* complaint has does not depend on the form, so one form is sent with it.
UrlIds == 1..(Len(complaints) + 1)
MissingIds == {Len(complaints) + 1}

Register ==
    \E email \in Emails \cup {Absent}, username \in Usernames, password \in Passwords,
       salt \in Salts :
        register(email, username, password, salt)

Login ==
    \E username \in LoginNames, password \in Passwords :
        login(username, password)

Logout == logout

NewComplaintReq ==
    \E category \in Categories \cup {Absent}, priority \in FormPriorities, token \in Tokens,
       t \in Clock :
        new_complaint(category, priority, token, t)

ViewComplaint ==
    \E cid \in UrlIds : view_complaint(cid)

UpdateComplaint ==
    \/ \E cid \in DOMAIN complaints, status \in FormStatuses, priority \in FormPriorities,
          assigned_to \in FormAssignees, t1 \in Clock :
           \E t \in After(t1) :
               update_complaint(cid, status, priority, assigned_to, t1, t)
    \/ \E cid \in MissingIds :
           update_complaint(cid, "CLOSED", Absent, Absent, now, now)

RespondToComplaint ==
    \/ \E cid \in DOMAIN complaints, message \in Messages \cup {Absent},
          internal \in InternalFlags \cup {Absent}, t \in Clock :
           respond_to_complaint(cid, message, internal, t)
    \/ \E cid \in MissingIds :
           respond_to_complaint(cid, "noted", Absent, now)

EscalateComplaint ==
    \E cid \in UrlIds, t \in Clock : escalate_complaint(cid, t)

Reports == reports

-----------------------------------------------------------------------------
(* Process start.  init_db() opens sqlite:///complaints.db, which outlives *)
(* the process, and create_admin_user runs on what it holds; sessions do   *)
(* not outlive it (app.secret_key is drawn anew), so no client is logged   *)
(* in.  The stores below are an empty database and databases left by       *)
(* earlier runs: the row of alice is the row register writes,              *)
(* the rows of the complaints are the rows new_complaint writes.  No route *)
(* makes a staff account or deactivates an account; carol and dave stand   *)
(* for accounts the operator edited in the database.                       *)

Row(id, email, username, role, is_active) ==
    [NewUser(id, email, username, generate_password_hash("s1", "letmein"), role)
        EXCEPT !.is_active = is_active]

AdminRow == NewUser(1, ADMIN_EMAIL, ADMIN_USERNAME,
                    generate_password_hash("s1", ADMIN_PASSWORD), ADMIN)

AliceRow == Row(2, "alice@x.org", "alice", CITIZEN, 1)

CarolRow == Row(3, "carol@x.org", "carol", STAFF, 1)

DaveRow == Row(4, "dave@x.org", "dave", CITIZEN, 0)

\* admin, alice and the staff account carol
StaffedUsers == <<AdminRow, AliceRow, CarolRow>>

\* admin, alice, the staff account carol and the deactivated account dave
EditedUsers == <<AdminRow, AliceRow, CarolRow, DaveRow>>

\* complaint 1 of alice and complaint 2 of carol, as new_complaint wrote them
\* (new_complaint asks for a session only, so a staff account may own one)
TwoComplaints ==
    <<NewComplaint(1, TicketNumber(1, "A1B2C3"), 2, "Water Supply", MEDIUM, 1),
      NewComplaint(2, TicketNumber(1, "00FF7E"), 3, "Sanitation", MEDIUM, 1)>>

\* module initialisation of src/app.py over the users and complaints of `us`
\* and `cs`
Start(us, cs) ==
    /\ \E salt \in Salts : users = create_admin_user(us, salt)
    /\ complaints = cs
    /\ responses = <<>>
    /\ session = NoSession
    /\ now = 1
    /\ resp = NoReply

\* The process is stopped and started again: module initialisation runs on
\* the store the earlier run left.  The cookie of a logged-in client was
\* signed with the earlier secret key and is no longer a session.  resp
\* records the start: no request has been answered by the new process.
Restart ==
    /\ \E salt \in Salts : users' = create_admin_user(users, salt)
    /\ session' = NoSession
    /\ resp' = Reply("start", None, <<>>)
    /\ UNCHANGED <<complaints, responses, now>>

-----------------------------------------------------------------------------
(* The whole application from an empty database.                           *)

Init == Start(<<>>, <<>>)

Next ==
    \/ Register
    \/ Login
    \/ Logout
    \/ NewComplaintReq
    \/ ViewComplaint
    \/ UpdateComplaint
    \/ RespondToComplaint
    \/ EscalateComplaint
    \/ Reports
    \/ Restart

Spec == Init /\ [][Next]_vars

-----------------------------------------------------------------------------
(* Identity store: registration and login, from an empty database and from *)
(* the edited one.                                                         *)

InitIdentity == Start(<<>>, <<>>) \/ Start(EditedUsers, <<>>)

NextIdentity ==
    \/ Register
    \/ Login
    \/ Logout

SpecIdentity == InitIdentity /\ [][NextIdentity]_vars

-----------------------------------------------------------------------------
(* Restarts: the identity store over process starts.                       *)

InitRestarts == InitIdentity

NextRestarts ==
    \/ Register
    \/ Login
    \/ Logout
    \/ Restart

SpecRestarts == InitRestarts /\ [][NextRestarts]_vars

-----------------------------------------------------------------------------
(* Accounts from an empty database: every user is one the application made, *)
(* and an Admin/Staff route is there to be asked for.                      *)

InitAccounts == Start(<<>>, <<>>)

NextAccounts ==
    \/ Register
    \/ Login
    \/ Logout
    \/ Restart
    \/ Reports

SpecAccounts == InitAccounts /\ [][NextAccounts]_vars

-----------------------------------------------------------------------------
(* Response thread: responding to and viewing the two stored complaints.   *)

InitThread == Start(StaffedUsers, TwoComplaints)

NextThread ==
    \/ Login
    \/ Logout
    \/ RespondToComplaint
    \/ ViewComplaint

SpecThread == InitThread /\ [][NextThread]_vars

-----------------------------------------------------------------------------
(* Complaint lifecycle: updates and escalations of a stored complaint.     *)

InitLifecycle == Start(StaffedUsers, <<TwoComplaints[1]>>)

NextLifecycle ==
    \/ Login
    \/ Logout
    \/ UpdateComplaint
    \/ EscalateComplaint

SpecLifecycle == InitLifecycle /\ [][NextLifecycle]_vars

-----------------------------------------------------------------------------
(* Intake: complaints submitted to a store that holds none.                *)

InitIntake == Start(<<AdminRow, AliceRow>>, <<>>)

NextIntake ==
    \/ Login
    \/ Logout
    \/ NewComplaintReq

SpecIntake == InitIntake /\ [][NextIntake]_vars

-----------------------------------------------------------------------------
(* Reporting: the report over the complaints the intake stores.            *)

InitReporting == InitIntake

NextReporting ==
    \/ Login
    \/ Logout
    \/ NewComplaintReq
    \/ Reports

SpecReporting == InitReporting /\ [][NextReporting]_vars

-----------------------------------------------------------------------------
(* Properties.                                                             *)

\* the role of the user the session names, read from the users table
SessionRole == users[session.user_id].role

\* the caller is logged in as an Admin or Staff user
StaffCaller == LoggedIn /\ SessionRole \in {ADMIN, STAFF}

\* the caller is logged in as a citizen
CitizenCaller == LoggedIn /\ SessionRole = CITIZEN

\* C1 (as claimed, refuted by respond_to_complaint): every stored response
\* was written by an Admin/Staff user or by the owner of its complaint, so a
\* citizen's response to a complaint of another user is never stored.
C1_ResponseOnlyWithViewAccess ==
    \A i \in DOMAIN responses :
        \/ users[responses[i].responder_id].role \in {ADMIN, STAFF}
        \/ complaints[responses[i].complaint_id].user_id = responses[i].responder_id

\* C2: a logged-in user's request for a stored complaint is granted exactly
\* when the user is Admin or Staff or owns the complaint, and is answered
\* "Access denied!" exactly when not; so a citizen is denied a complaint of
\* another user and granted their own.
C2_ViewGrantedIffStaffOrOwner ==
    [][\A cid \in DOMAIN complaints :
          (LoggedIn /\ resp'.route = "view_complaint" /\ view_complaint(cid)) =>
              LET allowed == \/ SessionRole \in {ADMIN, STAFF}
                             \/ complaints[cid].user_id = session.user_id
              IN  /\ resp'.flash = "200 OK" <=> allowed
                  /\ resp'.flash = "Access denied!" <=> ~allowed]_vars

\* C2 witness: alice, a citizen, was denied complaint 2, which carol owns.
C2_Witness ==
    /\ CitizenCaller
    /\ resp.route = "view_complaint" /\ resp.flash = "Access denied!"
    /\ \E cid \in DOMAIN complaints : complaints[cid].user_id # session.user_id
    /\ \E cid \in DOMAIN complaints : complaints[cid].user_id = session.user_id

\* C3: while the caller is a citizen or holds no session, no request changes
\* status, priority, assignee, resolved_at or escalation_count of any
\* complaint, and update and escalate answer with the denial or the redirect
\* to the login page.
C3_OnlyStaffMutates ==
    [][~StaffCaller =>
          /\ DOMAIN complaints' = DOMAIN complaints
          /\ \A i \in DOMAIN complaints :
                /\ complaints'[i].status = complaints[i].status
                /\ complaints'[i].priority = complaints[i].priority
                /\ complaints'[i].assigned_to = complaints[i].assigned_to
                /\ complaints'[i].resolved_at = complaints[i].resolved_at
                /\ complaints'[i].escalation_count = complaints[i].escalation_count
          /\ resp'.route \in {"update_complaint", "escalate_complaint"} =>
                resp'.flash = IF LoggedIn THEN "Access denied. Admin privileges required."
                                          ELSE "redirect: login"]_vars

\* C3 witness: alice, a citizen, was denied an update or an escalation after
\* a staff user had changed the complaint.
C3_Witness ==
    /\ CitizenCaller
    /\ resp.route \in {"update_complaint", "escalate_complaint"}
    /\ resp.flash = "Access denied. Admin privileges required."
    /\ \E i \in DOMAIN complaints : complaints[i].status # PENDING

\* C4: every stored internal response was written by an Admin or Staff
\* user, and the response a citizen adds with the internal flag "on" is
\* stored as public.
C4_CitizenNeverInternal ==
    [][/\ \A i \in DOMAIN responses' :
              responses'[i].is_internal # 0 =>
                  users'[responses'[i].responder_id].role \in {ADMIN, STAFF}
       /\ \A cid \in DOMAIN complaints, message \in Messages :
              (/\ CitizenCaller
               /\ resp'.route = "respond_to_complaint"
               /\ \E t \in Clock : respond_to_complaint(cid, message, "on", t)) =>
                  /\ Len(responses') = Len(responses) + 1
                  /\ responses'[Len(responses')].responder_id = session.user_id
                  /\ responses'[Len(responses')].is_internal = 0]_vars

\* C4 witness: a citizen's response is stored, public, beside an internal
\* one.
C4_Witness ==
    /\ resp.route = "respond_to_complaint" /\ resp.flash = "Response added successfully!"
    /\ CitizenCaller
    /\ responses[Len(responses)].responder_id = session.user_id
    /\ responses[Len(responses)].is_internal = 0
    /\ \E i \in DOMAIN responses : responses[i].is_internal = 1

\* the sequence q lists exactly the responses in `rows`, each once, with
\* created_at never decreasing
ListsInCreationOrder(q, rows) ==
    /\ {q[k] : k \in DOMAIN q} = rows
    /\ Len(q) = Cardinality(rows)
    /\ \A j, k \in DOMAIN q : j < k => responses[q[j]].created_at <= responses[q[k]].created_at

\* C5: a granted view lists, in ascending creation order, exactly the
\* non-internal responses of the complaint for a citizen and all responses
\* of the complaint for an Admin/Staff viewer; a citizen's listing holds no
\* internal response.
C5_ListingFiltered ==
    [][\A cid \in DOMAIN complaints :
          (LoggedIn /\ resp'.flash = "200 OK" /\ view_complaint(cid)) =>
              LET ofComplaint == {i \in DOMAIN responses : responses[i].complaint_id = cid}
                  public == {i \in ofComplaint : responses[i].is_internal = 0}
              IN  /\ CitizenCaller => ListsInCreationOrder(resp'.data, public)
                  /\ StaffCaller => ListsInCreationOrder(resp'.data, ofComplaint)
                  /\ CitizenCaller =>
                        \A k \in DOMAIN resp'.data : responses[resp'.data[k]].is_internal = 0]_vars

\* C5 witness: alice is shown her complaint's public response, made after
\* an internal one that the listing leaves out.
C5_Witness ==
    /\ CitizenCaller
    /\ resp.route = "view_complaint" /\ resp.flash = "200 OK"
    /\ Len(resp.data) = 1
    /\ \E i \in DOMAIN responses :
          /\ responses[i].is_internal = 1
          /\ responses[i].complaint_id = responses[resp.data[1]].complaint_id
          /\ responses[i].created_at < responses[resp.data[1]].created_at

\* C6: an escalation by an Admin/Staff caller of a stored complaint leaves it
\* with status Escalated, priority High and escalation_count one more than
\* before, whatever its status and priority were.
C6_EscalateResult ==
    [][\A cid \in DOMAIN complaints :
          (/\ StaffCaller
           /\ resp'.route = "escalate_complaint"
           /\ \E t \in Clock : escalate_complaint(cid, t)) =>
              /\ complaints'[cid].status = ESCALATED
              /\ complaints'[cid].priority = HIGH
              /\ complaints'[cid].escalation_count = complaints[cid].escalation_count + 1]_vars

\* C6 witness: a complaint that had been resolved was escalated.
C6_Witness ==
    /\ StaffCaller
    /\ resp.route = "escalate_complaint" /\ resp.flash = "Complaint escalated successfully!"
    /\ \E i \in DOMAIN complaints :
          /\ complaints[i].status = ESCALATED
          /\ complaints[i].priority = HIGH
          /\ complaints[i].escalation_count = 1
          /\ complaints[i].resolved_at # NULL

\* C7: no two users share an email or a username, and a registration whose
\* email or username is that of a stored user (the bootstrap admin included)
\* is answered "Email or username already exists!" and leaves the users as
\* they were.
C7_RegistrationUnique ==
    [][/\ \A i, j \in DOMAIN users' :
              i # j => /\ users'[i].email # users'[j].email
                       /\ users'[i].username # users'[j].username
       /\ \A email \in Emails, username \in Usernames, password \in Passwords, salt \in Salts :
              (/\ resp'.route = "register"
               /\ register(email, username, password, salt)
               /\ \E i \in DOMAIN users :
                      users[i].email = email \/ users[i].username = username) =>
                  /\ users' = users
                  /\ resp'.flash = "Email or username already exists!"]_vars

\* C7 witness: a registration was rejected as a duplicate after another one
\* had succeeded.
C7_Witness ==
    /\ resp.route = "register" /\ resp.flash = "Email or username already exists!"
    /\ \E i \in DOMAIN users : users[i].username = "bob"

\* C8 (as claimed, refuted by new_complaint): the ticket number a create call
\* generates differs from the ticket number of every stored complaint.
C8_GeneratedTicketIsNew ==
    [][\A category \in Categories, priority \in FormPriorities, token \in Tokens, t \in Clock :
          (/\ LoggedIn
           /\ resp'.route = "new_complaint"
           /\ new_complaint(category, priority, token, t)) =>
              \A i \in DOMAIN complaints :
                  complaints[i].ticket_number # TicketNumber(t, token)]_vars

\* C9: an Admin/Staff update that supplies the status RESOLVED alone stamps
\* resolved_at with the clock reading the request takes for it, whatever the
\* status was; an update that supplies the status CLOSED alone leaves
\* resolved_at as it was.
C9_ResolvedAtStamped ==
    [][(StaffCaller /\ resp'.route = "update_complaint") =>
          \A cid \in DOMAIN complaints, t1 \in Clock :
              \A t \in After(t1) :
                  /\ update_complaint(cid, "RESOLVED", Absent, Absent, t1, t) =>
                         /\ complaints'[cid].status = RESOLVED
                         /\ complaints'[cid].resolved_at = t1
                         /\ complaints'[cid].resolved_at # NULL
                  /\ update_complaint(cid, "CLOSED", Absent, Absent, t1, t) =>
                         /\ complaints'[cid].status = CLOSED
                         /\ complaints'[cid].resolved_at = complaints[cid].resolved_at]_vars

\* C9 witness: a complaint that was resolved has been closed at a later
\* clock reading and still carries the earlier resolved_at.
C9_Witness ==
    /\ StaffCaller
    /\ resp.route = "update_complaint" /\ resp.flash = "Complaint updated successfully!"
    /\ \E i \in DOMAIN complaints :
          /\ complaints[i].status = CLOSED
          /\ complaints[i].resolved_at # NULL
          /\ complaints[i].resolved_at < complaints[i].updated_at

\* C10: a login sets the session to a user exactly when a user with the
\* given username is stored, the password is the one the stored hash was
\* made from, and the user is active; a failed login is answered "Invalid
\* credentials or inactive account!" and leaves the session as it was.
C10_LoginIffValid ==
    [][\A username \in LoginNames \ {Absent}, password \in Passwords :
          (resp'.route = "login" /\ login(username, password)) =>
              LET valid == {i \in DOMAIN users :
                               /\ users[i].username = username
                               /\ users[i].password_hash =
                                      generate_password_hash(users[i].password_hash.salt, password)
                               /\ users[i].is_active = 1}
              IN  /\ valid # {} =>
                        /\ session'.user_id \in valid
                        /\ session'.username = username
                        /\ session'.role = users[session'.user_id].role
                  /\ valid = {} =>
                        /\ session' = session
                        /\ resp'.flash = "Invalid credentials or inactive account!"]_vars

\* C10 witness: a logged-in client's login failed and the session is still
\* there, in the store that holds the deactivated account.
C10_Witness ==
    /\ LoggedIn
    /\ resp.route = "login" /\ resp.flash = "Invalid credentials or inactive account!"
    /\ \E i \in DOMAIN users : users[i].is_active = 0

\* C11: an Admin/Staff update that carries a valid status together with an
\* invalid priority or an unparsable assignee is answered "Update failed"
\* and leaves every stored complaint as it was: status, priority, assignee,
\* resolved_at and updated_at keep the values they had before the call.  So
\* does every update that is answered "Update failed".  (A failed call reads
\* the clock at most once, and `now` is then that reading.)
C11_FailedUpdateRolledBack ==
    [][(StaffCaller /\ resp'.route = "update_complaint") =>
          /\ resp'.flash = "Update failed" => complaints' = complaints
          /\ (resp'.flash # "Update failed" \/ complaints' # complaints) =>
                \A cid \in DOMAIN complaints, status \in StatusNames :
                    /\ ~update_complaint(cid, status, "urgent", Absent, now', now')
                    /\ ~update_complaint(cid, status, "CRITICAL", "x", now', now')]_vars

\* C11 witness: an update with the status RESOLVED read the clock and then
\* failed; the complaint is pending, unresolved and unassigned as before,
\* and its updated_at is older than the reading.
C11_Witness ==
    /\ StaffCaller
    /\ resp.route = "update_complaint" /\ resp.flash = "Update failed"
    /\ \E i \in DOMAIN complaints :
          /\ complaints[i].status = PENDING
          /\ complaints[i].priority = MEDIUM
          /\ complaints[i].assigned_to = NULL
          /\ complaints[i].resolved_at = NULL
          /\ complaints[i].updated_at < now

\* the users with username 'admin'
AdminIdentities(us) == {i \in DOMAIN us : us[i].username = ADMIN_USERNAME}

C13_CreatedComplaintDefaults ==
    [][(/\ LoggedIn
        /\ resp'.route = "new_complaint"
        /\ resp'.flash = "Complaint submitted successfully!") =>
          \A category \in Categories, priority \in FormPriorities, token \in Tokens, t \in Clock :
              new_complaint(category, priority, token, t) =>
                  LET c == complaints'[Len(complaints')]
                  IN  /\ Len(complaints') = Len(complaints) + 1
                      /\ \A i \in DOMAIN complaints : complaints'[i] = complaints[i]
                      /\ c.status = PENDING
                      /\ c.escalation_count = 0
                      /\ c.assigned_to = NULL
                      /\ c.resolved_at = NULL
                      /\ c.user_id = session.user_id
                      /\ c.category = category
                      /\ c.priority = IF priority = Absent THEN MEDIUM
                                      ELSE PriorityByName(priority)
                      /\ c.priority \in ComplaintPriority]_vars

\* C13 witness: the caller's complaint with the requested priority Critical
\* was stored after one created with no priority in the form.
C13_Witness ==
    /\ LoggedIn
    /\ resp.route = "new_complaint" /\ resp.flash = "Complaint submitted successfully!"
    /\ Len(complaints) = 2
    /\ complaints[1].priority = MEDIUM
    /\ complaints[2].priority = CRITICAL
    /\ complaints[2].status = PENDING
    /\ complaints[2].user_id = session.user_id

\* the number of stored complaints with that category
CountOfCategory(category) ==
    Cardinality({i \in DOMAIN complaints : complaints[i].category = category})

\* C14 (as claimed, refuted by reports): the category counts of a report
\* give, for each category that a stored complaint has, exactly one entry
\* that pairs the category with the number of complaints having it, and no
\* entry for any other category.
C14_CategoryCounts ==
    (resp.route = "reports" /\ resp.flash = "200 OK") =>
        LET rows == resp.data.category_counts
        IN  /\ \A k \in DOMAIN rows :
                  /\ Len(rows[k]) = 2
                  /\ rows[k][2] = CountOfCategory(rows[k][1])
                  /\ rows[k][2] > 0
            /\ \A i \in DOMAIN complaints :
                  Cardinality({k \in DOMAIN rows : rows[k][1] = complaints[i].category}) = 1

\* C15: a step changes a stored complaint's resolved_at only when it is an
\* update that sets the status to Resolved.  An escalation, an update that
\* supplies no status or a status other than RESOLVED (with any priority and
\* assignee), a response and the creation of another complaint leave it as
\* it was; a complaint moved out of Resolved keeps its resolved_at.
C15_ResolvedAtOnlyOnResolve ==
    [][\A i \in DOMAIN complaints :
          /\ i \in DOMAIN complaints'
          /\ complaints'[i].resolved_at # complaints[i].resolved_at =>
                /\ resp'.route = "update_complaint"
                /\ resp'.flash = "Complaint updated successfully!"
                /\ complaints'[i].status = RESOLVED
                /\ \A status \in FormStatuses \ {"RESOLVED"}, priority \in FormPriorities,
                      assigned_to \in FormAssignees :
                        ~update_complaint(i, status, priority, assigned_to, now, now')
          /\ (complaints[i].status = RESOLVED /\ complaints'[i].status # RESOLVED) =>
                /\ complaints'[i].resolved_at = complaints[i].resolved_at
                /\ complaints'[i].resolved_at # NULL]_vars

\* C15 witness: a complaint that was resolved has since been moved to In
\* Progress, given the priority Critical and assigned, and still carries
\* its resolved_at.
C15_Witness ==
    /\ resp.route = "update_complaint" /\ resp.flash = "Complaint updated successfully!"
    /\ \E i \in DOMAIN complaints :
          /\ complaints[i].status = IN_PROGRESS
          /\ complaints[i].priority = CRITICAL
          /\ complaints[i].assigned_to = 2
          /\ complaints[i].resolved_at # NULL

\* C16: an update touches only the fields its form supplies.  No update
\* step changes escalation_count, ticket_number or owner of a complaint, or
\* the number of complaints.  A step that changes priority or assignee of a
\* complaint is not an update that supplies a status alone; a step that
\* changes status, resolved_at or assignee is not one that supplies a
\* priority alone; a step that changes status or priority is not one that
\* supplies a non-empty assigned_to alone.
C16_PartialUpdateFrame ==
    [][(StaffCaller /\ resp'.route = "update_complaint") =>
          /\ Len(complaints') = Len(complaints)
          /\ \A i \in DOMAIN complaints :
                LET old == complaints[i]
                    new == complaints'[i]
                IN  /\ new.escalation_count = old.escalation_count
                    /\ new.ticket_number = old.ticket_number
                    /\ new.user_id = old.user_id
                    /\ (new.priority # old.priority \/ new.assigned_to # old.assigned_to) =>
                          \A status \in FormStatuses \ {Absent}, t1 \in Clock :
                              ~update_complaint(i, status, Absent, Absent, t1, now')
                    /\ (\/ new.status # old.status
                        \/ new.resolved_at # old.resolved_at
                        \/ new.assigned_to # old.assigned_to) =>
                          \A priority \in FormPriorities \ {Absent} :
                              ~update_complaint(i, Absent, priority, Absent, now, now')
                    /\ (new.status # old.status \/ new.priority # old.priority) =>
                          \A assigned_to \in FormAssignees \ {Absent, ""} :
                              ~update_complaint(i, Absent, Absent, assigned_to, now, now')]_vars

\* C16 witness: a complaint that was escalated once was later acknowledged,
\* given the priority Critical and assigned by updates; it keeps its
\* escalation_count, its ticket number and its owner.
C16_Witness ==
    /\ StaffCaller
    /\ resp.route = "update_complaint" /\ resp.flash = "Complaint updated successfully!"
    /\ \E i \in DOMAIN complaints :
          /\ complaints[i].status = ACKNOWLEDGED
          /\ complaints[i].priority = CRITICAL
          /\ complaints[i].assigned_to = 2
          /\ complaints[i].escalation_count = 1
          /\ complaints[i].ticket_number = TwoComplaints[i].ticket_number
          /\ complaints[i].user_id = TwoComplaints[i].user_id

\* C17: for each of the six statuses a complaint may be in and each of the
\* six a form may name, an Admin/Staff update that supplies that status alone
\* can be made, is answered "Complaint updated successfully!" and leaves the
\* complaint in the named status.
C17_AnyStatusFromAnyStatus ==
    /\ [](StaffCaller =>
            \A cid \in DOMAIN complaints, status \in StatusNames :
                /\ complaints[cid].status \in ComplaintStatus
                /\ ENABLED update_complaint(cid, status, Absent, Absent, now, now))
    /\ [][(StaffCaller /\ resp'.route = "update_complaint") =>
            \A cid \in DOMAIN complaints, status \in StatusNames, t1 \in Clock :
                update_complaint(cid, status, Absent, Absent, t1, now') =>
                    /\ resp'.flash = "Complaint updated successfully!"
                    /\ complaints'[cid].status = StatusByName(status)]_vars

\* C17 witness: a complaint that was escalated and resolved is Pending
\* again after an update.
C17_Witness ==
    /\ StaffCaller
    /\ resp.route = "update_complaint" /\ resp.flash = "Complaint updated successfully!"
    /\ \E i \in DOMAIN complaints :
          /\ complaints[i].status = PENDING
          /\ complaints[i].resolved_at # NULL
          /\ complaints[i].escalation_count = 1

\* C18: every step leaves a complaint's escalation_count one higher when it
\* is a successful escalation of that complaint and as it was when it is
\* anything else, so the counter never decreases and counts the successful
\* escalations since the complaint was created with 0; an update that sets
\* the status to Escalated sets the status and leaves the counter.
C18_EscalationCountCountsEscalations ==
    [][\A i \in DOMAIN complaints :
          LET escalated == /\ resp'.route = "escalate_complaint"
                           /\ resp'.flash = "Complaint escalated successfully!"
                           /\ escalate_complaint(i, now')
          IN  /\ complaints'[i].escalation_count
                     = complaints[i].escalation_count + (IF escalated THEN 1 ELSE 0)
              /\ complaints'[i].escalation_count >= complaints[i].escalation_count
              /\ (/\ resp'.route = "update_complaint"
                  /\ update_complaint(i, "ESCALATED", Absent, Absent, now, now')) =>
                    /\ StaffCaller => complaints'[i].status = ESCALATED
                    /\ complaints'[i].escalation_count = complaints[i].escalation_count]_vars

\* C18 witness: an update has set the status of a complaint to Escalated,
\* and its escalation_count is 0: it was never escalated.
C18_Witness ==
    /\ StaffCaller
    /\ resp.route = "update_complaint" /\ resp.flash = "Complaint updated successfully!"
    /\ \E i \in DOMAIN complaints :
          /\ complaints[i].status = ESCALATED
          /\ complaints[i].escalation_count = 0

\* C19: from an empty database, no step changes the role or the active flag
\* of a stored user or removes one; a user that a registration adds is a
\* Citizen; the only user with role Admin or Staff, before and after every
\* step, is the admin the bootstrap made; and a logged-in user other than
\* that admin who asks for an Admin/Staff route is denied.
C19_NoPrivilegeGranted ==
    [][/\ \A i \in DOMAIN users :
              /\ i \in DOMAIN users'
              /\ users'[i].role = users[i].role
              /\ users'[i].is_active = users[i].is_active
       /\ \A i \in DOMAIN users' \ DOMAIN users :
              resp'.route = "register" /\ users'[i].role = CITIZEN
       /\ \A us \in {users, users'} :
              \A i \in DOMAIN us :
                  us[i].role \in {ADMIN, STAFF} =>
                      /\ i = 1
                      /\ us[i].username = ADMIN_USERNAME
                      /\ us[i].role = ADMIN
       /\ (/\ LoggedIn
           /\ resp'.route = "reports"
           /\ session.username # ADMIN_USERNAME) =>
              /\ admin_required = "denied"
              /\ resp'.flash = "Access denied. Admin privileges required."]_vars

\* C19 witness: bob, who registered, is logged in and was denied the
\* reports; the admin is the only Admin/Staff user beside him.
C19_Witness ==
    /\ LoggedIn
    /\ session.username = "bob"
    /\ resp.route = "reports" /\ resp.flash = "Access denied. Admin privileges required."
    /\ users[session.user_id].role = CITIZEN
    /\ Len(users) >= 2
    /\ users[1].role = ADMIN

=============================================================================
